---- MODULE Spec2Model ----
(***************************************************************************)
(* Model of sendmail.py: construction of a Mail (Mail.__init__) and the    *)
(* retry loop of Mail.send around one smtplib session per attempt.         *)
(*                                                                         *)
(* The transport (smtplib.SMTP) is the environment: every call of the try  *)
(* block either returns or raises.  What is raised is classified the way   *)
(* the except clauses of Mail.send classify it:                            *)
(*   "auth"  - smtplib.SMTPAuthenticationError (raised by login),          *)
(*   "os"    - any other OSError (smtplib.SMTPException is an OSError),    *)
(*   "other" - an exception that is no OSError (for instance the           *)
(*             UnicodeEncodeError of a non-ASCII credential), which no     *)
(*             except clause of Mail.send names.                           *)
(* Variables log, waits, calls, attempt and sessions record what the call  *)
(* did (attempt outcomes, time.sleep arguments, transport calls of the     *)
(* current attempt, attempts started, sessions created); the code reads    *)
(* none of them.                                                           *)
(***************************************************************************)
EXTENDS Integers, Sequences, FiniteSets

VARIABLES toArg, bccArg, retriesArg, pc, to, bcc, retries, tries, success,
          result, smtpserver, step, exc, attempt, calls, log, waits, sessions

vars == <<toArg, bccArg, retriesArg, pc, to, bcc, retries, tries, success,
          result, smtpserver, step, exc, attempt, calls, log, waits, sessions>>

\* The caller's arguments: they are chosen once and never change.
args == <<toArg, bccArg, retriesArg>>

\* Largest retries argument explored.
MaxRetries == 4

\* def send(self, retries=3)
DefaultRetries == 3

\* The retries argument of a call; NoArg stands for a call without it.
NoArg == -1
RetriesArgs == {NoArg} \cup (0 .. MaxRetries)

\* Values of the constructor's `to` and `bcc` arguments: None, a string (s)
\* or a list of strings (l).
None == [t |-> "none", s |-> "", l |-> <<>>]
Str(x) == [t |-> "str", s |-> x, l |-> <<>>]
List(x) == [t |-> "list", s |-> "", l |-> x]
ToArgs == {None, Str(""), Str("a"), List(<<>>), List(<<"a">>), List(<<"a", "c">>)}
BccArgs == {None, Str("b"), List(<<>>), List(<<"b">>)}

\* The argument names no recipient address at all.
IsEmptyArg(a) == \/ a.t = "none"
                 \/ a.t = "str" /\ a.s = ""
                 \/ a.t = "list" /\ a.l = <<>>

\* if to is None: raise ValueError("Mail: No recipient given")
RaisesNoRecipient_Empty(a) == IsEmptyArg(a)
RaisesNoRecipient(a) == a.t = "none"

\* if isinstance(to, str): self.to = [to]  else: self.to = to
NormTo(a) == IF a.t = "str" THEN <<a.s>> ELSE a.l

\* if bcc is None: [] ; elif isinstance(bcc, str): [bcc] ; else: bcc
NormBcc(a) == IF a.t = "none" THEN <<>> ELSE IF a.t = "str" THEN <<a.s>> ELSE a.l

\* to = self.to + self.bcc
Recipients(t, b) == t \o b

\* `if to:` - truth value of a list
Truthy_Always(l) == TRUE
Truthy(l) == Len(l) > 0

\* while not success and tries < retries
LoopGuard_OneMore(s, t, r) == ~s /\ t <= r
LoopGuard(s, t, r) == ~s /\ t < r

\* The calls of the try block, in program order.
Steps_LoginFirst == <<"connect", "ehlo", "login", "ehlo", "starttls", "sendmail">>
Steps == <<"connect", "ehlo", "starttls", "ehlo", "login", "sendmail">>

\* What a transport call can raise.  Every call can fail with an OSError;
\* SMTPAuthenticationError comes from login only; login and sendmail encode
\* the credentials and the addresses given by the caller as ASCII, where a
\* non-ASCII one raises UnicodeEncodeError, which is no OSError.
Raises(op) ==
    IF op = "login" THEN {"auth", "os", "other"}
    ELSE IF op = "sendmail" THEN {"os", "other"}
    ELSE {"os"}

\* time.sleep(tries) in the SMTPAuthenticationError handler
AuthWait_Quadratic(t) == t * t
AuthWait(t) == t

\* time.sleep(tries ** 2) in the OSError handler
OSWait_Double(t) == 2 * t
OSWait(t) == t * t

\* The except clause that handles an exception kind ("none": no clause).
Handler(k) == IF k = "auth" THEN "auth" ELSE IF k = "os" THEN "os" ELSE "none"

\* smtpserver.close(): the session's file and socket are released.
CloseSession_Skip(ss, id) == ss
CloseSession(ss, id) == [ss EXCEPT ![id] = [@ EXCEPT !.open = FALSE, !.closes = @ + 1]]

Init ==
    /\ toArg \in ToArgs
    /\ bccArg \in BccArgs
    /\ retriesArg \in RetriesArgs
    /\ pc = "start"
    /\ to = <<>>
    /\ bcc = <<>>
    /\ retries = 0
    /\ tries = 0
    /\ success = FALSE
    /\ result = "none"
    /\ smtpserver = 0
    /\ step = 1
    /\ exc = "none"
    /\ attempt = 0
    /\ calls = <<>>
    /\ log = <<>>
    /\ waits = <<>>
    /\ sessions = <<>>

\* Mail.__init__(sender, to, ..., bcc=...)
Construct ==
    /\ pc = "start"
    /\ IF RaisesNoRecipient(toArg)
       THEN /\ pc' = "ctor_raised"
            /\ UNCHANGED <<to, bcc>>
       ELSE /\ pc' = "ready"
            /\ to' = NormTo(toArg)
            /\ bcc' = NormBcc(bccArg)
    /\ UNCHANGED <<args, retries, tries, success, result, smtpserver, step, exc,
                   attempt, calls, log, waits, sessions>>

\* Mail.send(retries): entry, up to the `if to:` test.
SendEnter ==
    /\ pc = "ready"
    /\ retries' = IF retriesArg = NoArg THEN DefaultRetries ELSE retriesArg
    /\ tries' = 0
    /\ IF Truthy(Recipients(to, bcc))
       THEN /\ success' = FALSE
            /\ pc' = "loop"
            /\ UNCHANGED result
       ELSE /\ result' = "True"
            /\ pc' = "returned"
            /\ UNCHANGED success
    /\ UNCHANGED <<args, to, bcc, smtpserver, step, exc, attempt, calls, log, waits,
                   sessions>>

\* The while test: enter the try block of the next attempt ...
LoopEnter ==
    /\ pc = "loop"
    /\ LoopGuard(success, tries, retries)
    /\ pc' = "try"
    /\ step' = 1
    /\ exc' = "none"
    /\ attempt' = attempt + 1
    /\ calls' = <<>>
    /\ UNCHANGED <<args, to, bcc, retries, tries, success, result, smtpserver, log,
                   waits, sessions>>

\* ... or leave the loop: return success
LoopExit ==
    /\ pc = "loop"
    /\ ~LoopGuard(success, tries, retries)
    /\ result' = IF success THEN "True" ELSE "False"
    /\ pc' = "returned"
    /\ UNCHANGED <<args, to, bcc, retries, tries, success, smtpserver, step, exc,
                   attempt, calls, log, waits, sessions>>

\* A call of the try block returns.  smtplib.SMTP(server) creates the session
\* and binds smtpserver; the other calls act on smtpserver.
CallOk ==
    /\ pc = "try"
    /\ IF Steps[step] = "connect"
       THEN /\ sessions' = Append(sessions, [attempt |-> attempt, open |-> TRUE, closes |-> 0])
            /\ smtpserver' = Len(sessions) + 1
       ELSE UNCHANGED <<sessions, smtpserver>>
    /\ calls' = Append(calls, [op |-> Steps[step], ok |-> TRUE, target |-> smtpserver'])
    /\ IF step = Len(Steps)
       THEN pc' = "else" /\ UNCHANGED step
       ELSE pc' = "try" /\ step' = step + 1
    /\ UNCHANGED <<args, to, bcc, retries, tries, success, result, exc, attempt, log,
                   waits>>

\* A call of the try block raises: the rest of the block is skipped.  A
\* raising smtplib.SMTP(server) leaves smtpserver as it was.
CallRaise(k) ==
    /\ pc = "try"
    /\ k \in Raises(Steps[step])
    /\ calls' = Append(calls, [op |-> Steps[step], ok |-> FALSE,
                               target |-> IF Steps[step] = "connect" THEN 0 ELSE smtpserver])
    /\ exc' = k
    /\ pc' = "except"
    /\ UNCHANGED <<args, to, bcc, retries, tries, success, result, smtpserver, step,
                   attempt, log, waits, sessions>>

\* except smtplib.SMTPAuthenticationError: print; time.sleep(tries); tries += 1
ExceptAuth ==
    /\ pc = "except"
    /\ Handler(exc) = "auth"
    /\ waits' = Append(waits, AuthWait(tries))
    /\ tries' = tries + 1
    /\ log' = Append(log, "auth")
    /\ exc' = "none"
    /\ pc' = "finally"
    /\ UNCHANGED <<args, to, bcc, retries, success, result, smtpserver, step, attempt,
                   calls, sessions>>

\* except OSError as err: print; time.sleep(tries ** 2); tries += 1
ExceptOS ==
    /\ pc = "except"
    /\ Handler(exc) = "os"
    /\ waits' = Append(waits, OSWait(tries))
    /\ tries' = tries + 1
    /\ log' = Append(log, "os")
    /\ exc' = "none"
    /\ pc' = "finally"
    /\ UNCHANGED <<args, to, bcc, retries, success, result, smtpserver, step, attempt,
                   calls, sessions>>

\* No except clause matches: the exception stays pending through finally.
ExceptNone ==
    /\ pc = "except"
    /\ Handler(exc) = "none"
    /\ log' = Append(log, "other")
    /\ pc' = "finally"
    /\ UNCHANGED <<args, to, bcc, retries, tries, success, result, smtpserver, step,
                   exc, attempt, calls, waits, sessions>>

\* else: success = True
Else ==
    /\ pc = "else"
    /\ success' = TRUE
    /\ log' = Append(log, "ok")
    /\ pc' = "finally"
    /\ UNCHANGED <<args, to, bcc, retries, tries, result, smtpserver, step, exc,
                   attempt, calls, waits, sessions>>

\* Where control goes after the finally block: a pending exception leaves send.
AfterFinally(e) == IF e = "none" THEN "loop" ELSE "raised"

\* finally: smtpserver is unbound -> UnboundLocalError, caught: pass
FinallyUnbound ==
    /\ pc = "finally"
    /\ smtpserver = 0
    /\ pc' = AfterFinally(exc)
    /\ UNCHANGED <<args, to, bcc, retries, tries, success, result, smtpserver, step,
                   exc, attempt, calls, log, waits, sessions>>

\* finally: smtpserver.close() returns
FinallyClose ==
    /\ pc = "finally"
    /\ smtpserver # 0
    /\ sessions' = CloseSession(sessions, smtpserver)
    /\ calls' = Append(calls, [op |-> "close", ok |-> TRUE, target |-> smtpserver])
    /\ pc' = AfterFinally(exc)
    /\ UNCHANGED <<args, to, bcc, retries, tries, success, result, smtpserver, step,
                   exc, attempt, log, waits>>

\* finally: smtpserver.close() raises while releasing an open session (only
\* UnboundLocalError is caught around it); the error leaves send.  close()
\* drops the session's file and socket whether or not releasing them raised,
\* so the session counts as closed.
FinallyCloseRaise ==
    /\ pc = "finally"
    /\ smtpserver # 0
    /\ sessions[smtpserver].open
    /\ sessions' = CloseSession(sessions, smtpserver)
    /\ calls' = Append(calls, [op |-> "close", ok |-> FALSE, target |-> smtpserver])
    /\ exc' = "os"
    /\ pc' = "raised"
    /\ UNCHANGED <<args, to, bcc, retries, tries, success, result, smtpserver, step,
                   attempt, log, waits>>

Next ==
    \/ Construct
    \/ SendEnter
    \/ LoopEnter
    \/ LoopExit
    \/ CallOk
    \/ \E k \in {"auth", "os", "other"} : CallRaise(k)
    \/ ExceptAuth
    \/ ExceptOS
    \/ ExceptNone
    \/ Else
    \/ FinallyUnbound
    \/ FinallyClose
    \/ FinallyCloseRaise

Spec == Init /\ [][Next]_vars

\* send runs on one thread with blocking calls: a step that can be taken is taken.
FairSpec == Spec /\ WF_vars(Next)

----------------------------------------------------------------------------
(* Properties *)

\* send has ended, by returning or by an exception leaving it.
Terminal == pc \in {"returned", "raised"}

\* The program has nothing left to do.
Done == pc \in {"ctor_raised", "returned", "raised"}

\* send has been entered.
InSend == pc \notin {"start", "ctor_raised", "ready"}

\* The close of the current attempt raised.
CloseRaised == \E i \in 1 .. Len(calls) : calls[i].op = "close" /\ ~calls[i].ok

\* The calls of the current attempt's try block (everything but close).
BodyCalls == SelectSeq(calls, LAMBDA c : c.op # "close")

OpenSessions == {i \in 1 .. Len(sessions) : sessions[i].open}

\* C1: for a non-empty recipient list, send returns True exactly when some
\* attempt completed connect, handshake, STARTTLS, login and sendmail without
\* error, and returns False exactly when every one of the `retries` attempts
\* failed.
C1_ReturnIffOutcome ==
    (Terminal /\ to \o bcc # <<>>) =>
        /\ (pc = "returned" /\ result = "True") <=>
               (\E k \in 1 .. Len(log) : log[k] = "ok")
        /\ (pc = "returned" /\ result = "False") <=>
               (Len(log) = retries /\ \A k \in 1 .. Len(log) : log[k] # "ok")

\* C2: no exception propagates out of send, whatever a transport step raises.
C2_NoExceptionPropagates == pc # "raised"

\* C3 (as stated): construction fails exactly when `to` names no recipient
\* (None, an empty string or an empty sequence).
C3_EmptyToRejected ==
    pc # "start" => (IsEmptyArg(toArg) <=> pc = "ctor_raised")

\* C3 (amended): construction fails exactly when `to` is None; every other
\* `to`, the empty string and the empty sequence included, is normalised to
\* a sequence and accepted.
C3_NoneToRejected ==
    pc # "start" =>
        /\ (toArg = None) <=> (pc = "ctor_raised")
        /\ pc # "ctor_raised" =>
               to = (IF toArg.t = "str" THEN <<toArg.s>> ELSE toArg.l)

C3_Witness == pc = "ready" /\ toArg = List(<<>>) /\ to = <<>>

C5_Safe ==
    /\ attempt <= retries
    /\ retriesArg = NoArg => attempt <= 3
    /\ \A k \in 1 .. Len(log) : log[k] = "ok" => k = Len(log)
    /\ success => (pc \in {"finally", "loop", "returned", "raised"}
                   /\ attempt = Len(log) /\ log[Len(log)] = "ok")
    /\ log = <<"os", "ok">> =>
           /\ attempt = 2
           /\ waits = <<0>>
           /\ Terminal /\ ~CloseRaised => (pc = "returned" /\ result = "True")

\* C5: send makes at most `retries` attempts (3 when the argument is
\* omitted), starts no attempt after a successful one and terminates; when
\* attempt 1 fails with a transport failure and attempt 2 succeeds it returns
\* True after exactly 2 attempts and the single wait 0s.
C5_StopsRetrying == [](C5_Safe) /\ <>Done

C5_Witness ==
    /\ pc = "returned" /\ result = "True"
    /\ log = <<"os", "ok">> /\ waits = <<0>> /\ attempt = 2

\* Three attempts, each failing with an authentication failure and nothing else.
ThreeAuthFailures == retries = 3 /\ log = <<"auth", "auth", "auth">>

C7_SessionsClosed ==
    /\ Cardinality(OpenSessions) <= 1
    /\ \A i \in OpenSessions : sessions[i].attempt = attempt /\ smtpserver = i
    /\ pc \in {"loop", "returned", "raised"} => OpenSessions = {}
    /\ (pc = "try" /\ step = 1) => OpenSessions = {}

C7_Witness ==
    /\ pc = "returned"
    /\ Len(sessions) >= 2
    /\ \A i \in 1 .. Len(sessions) : ~sessions[i].open /\ sessions[i].closes >= 1

\* C8: with an empty effective recipient list send makes no transport call,
\* no wait and no attempt, and returns True, for every retries.
C8_EmptyRecipientsNoTransport ==
    (InSend /\ to \o bcc = <<>>) =>
        /\ pc = "returned" /\ result = "True"
        /\ calls = <<>> /\ sessions = <<>> /\ waits = <<>>
        /\ attempt = 0 /\ log = <<>>

C8_Witness == pc = "returned" /\ to \o bcc = <<>> /\ retries = MaxRetries

\* C9: the calls of an attempt are a prefix of connect, ehlo, starttls, ehlo,
\* login, sendmail; a failing call is the attempt's last; login is called
\* only after starttls succeeded in the attempt and sendmail only after
\* login succeeded in it.
C9_StepOrder ==
    LET order == <<"connect", "ehlo", "starttls", "ehlo", "login", "sendmail">>
        b == BodyCalls
    IN  /\ Len(b) <= Len(order)
        /\ \A k \in 1 .. Len(b) :
               /\ b[k].op = order[k]
               /\ k < Len(b) => b[k].ok
               /\ b[k].op = "login" =>
                      \E j \in 1 .. k - 1 : b[j].op = "starttls" /\ b[j].ok
               /\ b[k].op = "sendmail" =>
                      \E j \in 1 .. k - 1 : b[j].op = "login" /\ b[j].ok
        /\ \A k \in 1 .. Len(calls) : calls[k].op = "close" => k = Len(calls)

C9_Witness ==
    /\ attempt = 2
    /\ Len(BodyCalls) = 6
    /\ BodyCalls[5].op = "login" /\ BodyCalls[5].ok
    /\ BodyCalls[6].op = "sendmail" /\ ~BodyCalls[6].ok

\* C10: every close targets the session opened in the same attempt, and no
\* session is closed more than once.
C10_CloseOwnSessionOnce ==
    /\ \A k \in 1 .. Len(calls) :
           calls[k].op = "close" => sessions[calls[k].target].attempt = attempt
    /\ \A i \in 1 .. Len(sessions) : sessions[i].closes <= 1

====
